---- MODULE Spec2Model ----
(***************************************************************************)
(* A model of streaming/base/stream.py: the Stream constructor, weight     *)
(* validation and resolution, the retrying file download, the shard part   *)
(* materialization on a shared local directory, and the index wait.        *)
(***************************************************************************)
EXTENDS Integers, Sequences, FiniteSets, TLC

(***************************************************************************)
(* Values.                                                                 *)
(*   Optional values and attributes: <<>> is None (or an attribute that    *)
(*   does not exist), <<v>> is the value v.                                *)
(*   int64: <<h, l>> denotes h * 2^63 + l, |l| far below 2^63.             *)
(*   float64: <<h, l, d>> denotes the double nearest to (h * 2^63 + l) / d;*)
(*   d = 0 with l = 0 is NaN. The model's floats have small integer or     *)
(*   dyadic values, which float64 holds exactly.                           *)
(***************************************************************************)
None == <<>>

Some(v) == <<v>>

IsSet(o) == o /= <<>>

Val(o) == o[1]

I64(v) == <<0, v>>

F64(n, d) == <<0, n, d>>

\* Wrap-around of h * 2^63 + l into the signed 64-bit range.
I64Wrap(x) ==
    IF x[1] % 2 = 0 THEN <<0, x[2]>>
    ELSE IF x[2] >= 0 THEN <<-1, x[2]>>
    ELSE <<1, x[2]>>

I64Add(x, y) == I64Wrap(<<x[1] + y[1], x[2] + y[2]>>)

I64Sub(x, y) == I64Wrap(<<x[1] - y[1], x[2] - y[2]>>)

I64Neg(x) == x[1] < 0 \/ (x[1] = 0 /\ x[2] < 0)

I64Small(x) == x[1] = 0

\* What casting NaN to int64 yields: 0 (aarch64) or INT64_MIN (x86-64).
NanCastValues == {<<0, 0>>, <<-1, 0>>}

RECURSIVE SumTo(_, _)
SumTo(s, n) == IF n = 0 THEN 0 ELSE s[n] + SumTo(s, n - 1)

SumSeq(s) == SumTo(s, Len(s))

RECURSIVE I64SumTo(_, _)
I64SumTo(s, n) == IF n = 0 THEN <<0, 0>> ELSE I64Add(s[n], I64SumTo(s, n - 1))

I64Sum(s) == I64SumTo(s, Len(s))

(***************************************************************************)
(* Stream.__init__                                                         *)
(***************************************************************************)
MkdtempDir == "tmpdir"

NoStream ==
    [remote |-> None, _local |-> None, local |-> "", split |-> "",
     _proportion |-> None, proportion |-> None,
     _repeat |-> None, repeat |-> None,
     _samples |-> None, samples |-> None,
     _download_retry |-> None, download_retry |-> None,
     _download_timeout |-> None, download_timeout |-> None,
     validate_hash |-> None,
     _keep_zip |-> None, keep_zip |-> None, safe_keep_zip |-> None]

\* The number of the three weighting arguments that are not None.
HasCount(proportion, repeat, samples) ==
    (IF IsSet(proportion) THEN 1 ELSE 0) + (IF IsSet(repeat) THEN 1 ELSE 0)
        + (IF IsSet(samples) THEN 1 ELSE 0)

\* A bound off by one: two of the three pass.
AtMostOneWeightLoose(proportion, repeat, samples) ==
    LET n == HasCount(proportion, repeat, samples) IN 0 <= n /\ n <= 2

AtMostOneWeight(proportion, repeat, samples) ==
    LET n == HasCount(proportion, repeat, samples) IN 0 <= n /\ n <= 1

\* self.remote in {None, self.local}
RemoteIsLocal(remote, local) == remote = None \/ Val(remote) = local

\* a: the keyword arguments. The result: the exception raised ("none" when
\* the constructor returns) and the object built.
StreamInit(a) ==
    LET local == IF IsSet(a.local) /\ Val(a.local) /= "" THEN Val(a.local) ELSE MkdtempDir
        split == IF IsSet(a.split) THEN Val(a.split) ELSE ""
        fail(msg) == [err |-> msg, stream |-> NoStream]
    IN  IF ~AtMostOneWeight(a.proportion, a.repeat, a.samples)
            THEN fail("ValueError: at most one of proportion, repeat, samples")
        ELSE IF IsSet(a.proportion) /\ Val(a.proportion)[2] < 0
            THEN fail("ValueError: proportion must be non-negative")
        ELSE IF IsSet(a.repeat) /\ Val(a.repeat)[2] < 0
            THEN fail("ValueError: repeat must be non-negative")
        ELSE IF IsSet(a.samples) /\ I64Neg(Val(a.samples))
            THEN fail("ValueError: samples must be non-negative")
        ELSE IF IsSet(a.download_retry) /\ Val(a.download_retry) < 0
            THEN fail("ValueError: download retry must be non-negative")
        ELSE IF IsSet(a.download_timeout) /\ Val(a.download_timeout) <= 0
            THEN fail("ValueError: download timeout must be positive")
        ELSE [err |-> "none",
              stream |->
                [remote |-> a.remote, _local |-> a.local, local |-> local,
                 split |-> split,
                 _proportion |-> a.proportion, proportion |-> a.proportion,
                 _repeat |-> a.repeat, repeat |-> a.repeat,
                 _samples |-> a.samples, samples |-> a.samples,
                 _download_retry |-> a.download_retry,
                 download_retry |-> a.download_retry,
                 _download_timeout |-> a.download_timeout,
                 download_timeout |-> a.download_timeout,
                 validate_hash |-> a.validate_hash,
                 _keep_zip |-> a.keep_zip, keep_zip |-> a.keep_zip,
                 safe_keep_zip |->
                    IF IsSet(a.keep_zip)
                    THEN Some(Val(a.keep_zip) \/ RemoteIsLocal(a.remote, local))
                    ELSE None]]

\* The constructor's arguments with every argument left out.
NoArgs ==
    [remote |-> None, local |-> None, split |-> None, proportion |-> None,
     repeat |-> None, samples |-> None, download_retry |-> None,
     download_timeout |-> None, validate_hash |-> None, keep_zip |-> None]

(***************************************************************************)
(* Stream.apply_default                                                    *)
(***************************************************************************)
\* The truth value of an optional string: None and '' are false.
Truthy(o) == IsSet(o) /\ Val(o) /= ""

\* Line 160: not self.split
SplitUnset(stream) == stream.split = ""

\* Line 167: default.validate_hash or None
HashOrNone(o) == IF Truthy(o) THEN o ELSE None

\* Line 170, as line 147.
SafeKeepZip(stream) ==
    Some(Val(stream.keep_zip) \/ RemoteIsLocal(stream.remote, stream.local))

\* The statements of lines 160-170 one after another: reading an attribute
\* that default does not have raises AttributeError, and what was assigned
\* before stays assigned.
ApplyDefault(self, default) ==
    LET s1 == IF SplitUnset(self) THEN [self EXCEPT !.split = default.split] ELSE self
        e2 == self._download_retry = None /\ ~IsSet(default.download_retry)
        s2 == IF self._download_retry = None /\ ~e2
              THEN [s1 EXCEPT !.download_retry = default.download_retry] ELSE s1
        e3 == self._download_timeout = None /\ ~IsSet(default.download_timeout)
        s3 == IF self._download_timeout = None /\ ~e3
              THEN [s2 EXCEPT !.download_timeout = default.download_timeout] ELSE s2
        s4 == IF self.validate_hash = None
              THEN [s3 EXCEPT !.validate_hash = HashOrNone(default.validate_hash)] ELSE s3
        e5 == self._keep_zip = None /\ ~IsSet(default.keep_zip)
        k5 == [s4 EXCEPT !.keep_zip = default.keep_zip]
        s5 == IF self._keep_zip = None /\ ~e5
              THEN [k5 EXCEPT !.safe_keep_zip = SafeKeepZip(k5)] ELSE s4
    IN  IF ~(Truthy(self.remote) \/ Truthy(self._local))
            THEN [err |-> "ValueError: remote and/or local path must be provided",
                  stream |-> self]
        ELSE IF e2 THEN [err |-> "AttributeError: download_retry", stream |-> s1]
        ELSE IF e3 THEN [err |-> "AttributeError: download_timeout", stream |-> s2]
        ELSE IF e5 THEN [err |-> "AttributeError: keep_zip", stream |-> s4]
        ELSE [err |-> "none", stream |-> s5]

(***************************************************************************)
(* float64 arithmetic of the relative branch, on small integers.           *)
(***************************************************************************)
RECURSIVE Pow2Mod(_, _)
\* 2^e mod s, by repeated squaring
Pow2Mod(e, s) ==
    IF e = 0 THEN 1 % s
    ELSE LET h == Pow2Mod(e \div 2, s)
         IN  (((h * h) % s) * (IF e % 2 = 1 THEN 2 ELSE 1)) % s

\* (x * 2^e) mod s
DoubleMod(x, e, s) == ((x % s) * Pow2Mod(e, s)) % s

RECURSIVE Pow2(_)
Pow2(j) == IF j = 0 THEN 1 ELSE 2 * Pow2(j - 1)

RECURSIVE Log2Floor(_)
Log2Floor(k) == IF k < 2 THEN 0 ELSE 1 + Log2Floor(k \div 2)

RECURSIVE BinadeShift(_, _)
\* The least t with p * 2^t >= s: p / s lies in [2^-t, 2^(1-t)).
BinadeShift(p, s) == IF p >= s THEN 0 ELSE 1 + BinadeShift(2 * p, s)

MantissaBits == 52

\* int(spe * (p / s)) in float64, for integers spe >= 0 and 0 <= p <= s, s > 0:
\* the quotient p / s is rounded to a 53 bit mantissa, the product is rounded
\* again and then truncated. The result is the exact floor k of spe * p / s
\* unless spe * p / s is an integer, the quotient was rounded down (its
\* remainder r is below half) and the product's error spe * r / (s * 2^e)
\* exceeds half the distance between k and the double below it: then k - 1.
TruncMulDivPos(spe, p, s) ==
    LET k == (spe * p) \div s
        rho == (spe * p) % s
        t == BinadeShift(p, s)
        r == DoubleMod(p, MantissaBits + t, s)
        j == Log2Floor(k)
        lim == s * Pow2(t + j)
    IN  IF rho /= 0 \/ p = 0 \/ spe = 0 THEN k
        ELSE IF r = 0 \/ 2 * r >= s THEN k
        ELSE IF k = Pow2(j)
            THEN (IF 4 * spe * r <= lim THEN k ELSE k - 1)
        ELSE (IF 2 * spe * r <= lim THEN k ELSE k - 1)

\* Rounding and truncation are symmetric in the sign.
TruncMulDiv(spe, p, s) ==
    IF spe >= 0 THEN TruncMulDivPos(spe, p, s) ELSE 0 - TruncMulDivPos(0 - spe, p, s)

(***************************************************************************)
(* Stream.validate_weights                                                 *)
(***************************************************************************)
HasProportion(stream) == IsSet(stream.proportion)

HasRepeat(stream) == IsSet(stream.repeat)

HasSamples(stream) == IsSet(stream.samples)

\* The check of line 188 on one stream.
StreamWeightsOk(stream) == AtMostOneWeight(stream.proportion, stream.repeat, stream.samples)

\* The styles compared one way only: a proportion after a stream without one
\* passes.
FirstInvalidOneWay(streams, is_relative) ==
    LET bad == {i \in 1..Len(streams) :
                    ~StreamWeightsOk(streams[i])
                    \/ (is_relative /\ ~HasProportion(streams[i]))}
    IN  IF bad = {} THEN 0 ELSE CHOOSE i \in bad : \A k \in bad : i <= k

\* The first stream_id (from 1) at which the loop raises, 0 if none.
FirstInvalid(streams, is_relative) ==
    LET bad == {i \in 1..Len(streams) :
                    ~StreamWeightsOk(streams[i])
                    \/ is_relative /= HasProportion(streams[i])}
    IN  IF bad = {} THEN 0 ELSE CHOOSE i \in bad : \A k \in bad : i <= k

ValidateWeights(streams) ==
    IF Len(streams) = 0
    THEN [err |-> "IndexError", at |-> 0, rel |-> FALSE]
    ELSE LET is_relative == HasProportion(streams[1])
             i == FirstInvalid(streams, is_relative)
         IN  IF i = 0 THEN [err |-> "none", at |-> 0, rel |-> is_relative]
             ELSE IF ~StreamWeightsOk(streams[i])
                 THEN [err |-> "ValueError: at most one", at |-> i, rel |-> is_relative]
             ELSE [err |-> "ValueError: relative and absolute", at |-> i,
                   rel |-> is_relative]

(***************************************************************************)
(* Stream.apply_weights                                                    *)
(***************************************************************************)
\* A test for a positive value in place of truthiness.
EpochGivenPositive(spe) == IsSet(spe) /\ Val(spe) > 0

\* The truthiness of samples_per_epoch (lines 220 and 232): None and 0 are false.
EpochGiven(spe) == IsSet(spe) /\ Val(spe) /= 0

\* samples_per_epoch as the relative branch uses it (line 220-221).
RelativeEpoch(counts, spe) ==
    IF ~EpochGiven(spe) THEN SumSeq(counts) ELSE Val(spe)

ProportionSum(streams) == SumSeq([i \in 1..Len(streams) |-> Val(streams[i].proportion)[2]])

\* pick_per_stream before the shortfall is spread (line 224).
RelativeBasePicks(streams, counts, spe, nanCast) ==
    LET s == ProportionSum(streams)
        e == RelativeEpoch(counts, spe)
    IN  [i \in 1..Len(streams) |->
            IF s = 0 THEN nanCast
            ELSE I64(TruncMulDiv(e, Val(streams[i].proportion)[2], s))]

\* short (line 225), in int64.
RelativeShort(streams, counts, spe, nanCast) ==
    I64Sub(I64(RelativeEpoch(counts, spe)),
           I64Sum(RelativeBasePicks(streams, counts, spe, nanCast)))

\* rng.choice(len(streams), short, False) raises for a negative size and for
\* a size above the population.
ChoiceRaises(n, short) == I64Neg(short) \/ ~I64Small(short) \/ short[2] > n

\* The index sets rng.choice(n, short, False) can return, by the seed: every
\* set of short distinct indices.
ChoiceDraws(n, short) ==
    IF ChoiceRaises(n, short) THEN {{}}
    ELSE {idx \in SUBSET (1..n) : Cardinality(idx) = short[2]}

\* The product rounded up instead of truncated.
AbsolutePickCeil(stream, count) ==
    IF HasRepeat(stream)
        THEN 0 - ((0 - Val(stream.repeat)[2] * count) \div Val(stream.repeat)[3])
    ELSE IF HasSamples(stream) THEN Val(stream.samples)[2]
    ELSE count

\* pick_per_stream of the absolute branch (lines 236-243).
AbsolutePick(stream, count) ==
    IF HasRepeat(stream)
        THEN (Val(stream.repeat)[2] * count) \div Val(stream.repeat)[3]
    ELSE IF HasSamples(stream) THEN Val(stream.samples)[2]
    ELSE count

AbsolutePicks(streams, counts) ==
    [i \in 1..Len(streams) |-> I64(AbsolutePick(streams[i], counts[i]))]

\* An injection of the pick counts alone.
InjectSamplesOnly(streams, proportions, repeats, picks) ==
    [i \in 1..Len(streams) |-> [streams[i] EXCEPT !.samples = Some(picks[i])]]

\* Lines 249-253.
InjectWeights(streams, proportions, repeats, picks) ==
    [i \in 1..Len(streams) |->
        [streams[i] EXCEPT !.proportion = Some(proportions[i]),
                           !.repeat = Some(repeats[i]),
                           !.samples = Some(picks[i])]]

\* counts: samples_per_stream; spe: samples_per_epoch (None or an integer);
\* indices: the stream indices the seeded generator draws;
\* nanCast: what the build's NaN to int64 cast yields.
ApplyWeights(streams, counts, spe, indices, nanCast) ==
    LET v == ValidateWeights(streams)
        n == Len(streams)
        raise(msg) == [err |-> msg, ret |-> None, streams |-> streams]
    IN  IF v.err /= "none" THEN raise(v.err)
        ELSE IF v.rel
        THEN LET e == RelativeEpoch(counts, spe)
                 s == ProportionSum(streams)
                 base == RelativeBasePicks(streams, counts, spe, nanCast)
                 short == RelativeShort(streams, counts, spe, nanCast)
                 picks == [i \in 1..n |->
                             IF i \in indices THEN I64Add(base[i], I64(1)) ELSE base[i]]
             IN  IF ChoiceRaises(n, short) THEN raise("ValueError: rng.choice")
                 ELSE [err |-> "none", ret |-> Some(I64(e)),
                       streams |->
                         InjectWeights(streams,
                            [i \in 1..n |-> <<0, Val(streams[i].proportion)[2], s>>],
                            [i \in 1..n |-> <<picks[i][1], picks[i][2], counts[i]>>],
                            picks)]
        ELSE IF EpochGiven(spe)
            THEN raise("ValueError: samples_per_epoch with absolute weights")
        ELSE LET picks == AbsolutePicks(streams, counts)
                 total == I64Sum(picks)
             IN  [err |-> "none", ret |-> Some(total),
                  streams |->
                    InjectWeights(streams,
                        [i \in 1..n |-> <<0, picks[i][2], total[2]>>],
                        [i \in 1..n |-> <<0, picks[i][2], counts[i]>>],
                        picks)]

(***************************************************************************)
(* State.                                                                  *)
(***************************************************************************)
VARIABLES
    cargs,      \* the arguments of the last Stream(...) call
    cerr,       \* the exception it raised, "none" if it returned
    cself,      \* the Stream it built
    cphase,     \* "none", "constructed" or "failed"
    cdef,       \* the last apply_default on it: the default, self before, the outcome
    streams,    \* the cohort handed to validate_weights and apply_weights
    wcall,      \* the last call on the cohort: its inputs and its outcome
    conf,       \* the Stream whose files the processes fetch
    job,        \* what the processes were asked for
    dir,        \* the local directory <local>/<split>: file name -> inode, 0 if absent
    ino,        \* the content of each inode
    procs       \* each process: where it is in its call, its locals, its outcome

cvars == <<cargs, cerr, cself, cphase, cdef>>

wvars == <<streams, wcall>>

pvars == <<conf, job, dir, ino, procs>>

vars == <<cvars, wvars, pvars>>

(***************************************************************************)
(* Bounds and the values the inputs are drawn from.                        *)
(***************************************************************************)
MaxStreams == 2

MaxRetry == 2

NumProcs == 2

MaxWait == 2

MaxShards == 2

MaxDefaults == 2

RemoteArgs == {None, Some("remote"), Some("local")}

LocalArgs == {None, Some("local")}

SplitArgs == {None, Some(""), Some("train")}

ProportionArgs == {None, Some(F64(-1, 1)), Some(F64(0, 1)), Some(F64(3, 1))}

RepeatArgs == {None, Some(F64(-1, 2)), Some(F64(0, 1)), Some(F64(1, 2))}

SamplesArgs == {None, Some(I64(-1)), Some(I64(0)), Some(I64(3))}

RetryArgs == {None, Some(-1), Some(0), Some(2)}

TimeoutArgs == {None, Some(0), Some(5)}

HashArgs == {None, Some(""), Some("sha1")}

\* The Streams handed to apply_default: one with every optional field given,
\* one with false, zero and empty values, one with none of them.
DefaultStreams ==
    {StreamInit(a).stream : a \in
        {[NoArgs EXCEPT !.local = Some("cache"), !.split = Some("val"),
                        !.download_retry = Some(1), !.download_timeout = Some(9),
                        !.validate_hash = Some("md5"), !.keep_zip = Some(TRUE)],
         [NoArgs EXCEPT !.local = Some("cache"), !.split = Some(""),
                        !.download_retry = Some(0), !.download_timeout = Some(30),
                        !.validate_hash = Some(""), !.keep_zip = Some(FALSE)],
         NoArgs}}

KeepZipArgs == {None, Some(FALSE), Some(TRUE)}

\* The weights of the cohort's streams.
CohortProportions == {Some(F64(n, 1)) : n \in {0, 1, 3, 5, 6}}

CohortRepeats == {Some(F64(1, 2)), Some(F64(2, 1))}

CohortSamples == {Some(I64(0)), Some(I64(3))}

CountValues == {1, 20, 50}

EpochArgs == {None, Some(-1), Some(0), Some(2), Some(41), Some(55)}

(***************************************************************************)
(* Construction of one Stream.                                             *)
(***************************************************************************)
NoDefaulting == [n |-> 0, default |-> NoStream, before |-> NoStream, err |-> "none"]

CtorInit ==
    /\ cargs = NoArgs
    /\ cerr = "none"
    /\ cself = NoStream
    /\ cphase = "none"
    /\ cdef = NoDefaulting

Construct ==
    /\ cphase = "none"
    /\ \E remote \in RemoteArgs, local \in LocalArgs, split \in SplitArgs,
       proportion \in ProportionArgs, repeat \in RepeatArgs, samples \in SamplesArgs,
       download_retry \in RetryArgs, download_timeout \in TimeoutArgs,
       validate_hash \in HashArgs, keep_zip \in KeepZipArgs :
        LET a == [remote |-> remote, local |-> local, split |-> split,
                  proportion |-> proportion, repeat |-> repeat, samples |-> samples,
                  download_retry |-> download_retry,
                  download_timeout |-> download_timeout,
                  validate_hash |-> validate_hash, keep_zip |-> keep_zip]
            r == StreamInit(a)
        IN  /\ cargs' = a
            /\ cerr' = r.err
            /\ cself' = r.stream
            /\ cphase' = IF r.err = "none" THEN "constructed" ELSE "failed"
    /\ UNCHANGED <<cdef, wvars, pvars>>

\* self.apply_default(default) on the Stream constructed.
CallApplyDefault ==
    /\ cphase = "constructed"
    /\ cdef.n < MaxDefaults
    /\ cdef.err = "none"
    /\ \E default \in DefaultStreams :
        LET r == ApplyDefault(cself, default)
        IN  /\ cself' = r.stream
            /\ cdef' = [n |-> cdef.n + 1, default |-> default, before |-> cself,
                        err |-> r.err]
    /\ UNCHANGED <<cargs, cerr, cphase, wvars, pvars>>

(***************************************************************************)
(* A cohort of streams, validated and weighted.                            *)
(***************************************************************************)
NoCall ==
    [op |-> "none", pre |-> <<>>, counts |-> <<>>, spe |-> None, indices |-> {},
     nanCast |-> <<0, 0>>, err |-> "none", at |-> 0, rel |-> FALSE, ret |-> None]

WeightsInit ==
    /\ streams = <<>>
    /\ wcall = NoCall

\* An exception ends the run: the calls below follow a call that returned.
Returned == wcall.err = "none"

\* Stream(proportion=..., repeat=..., samples=...) joins the cohort.
AddStream ==
    /\ Returned
    /\ Len(streams) < MaxStreams
    /\ \E w \in {[NoArgs EXCEPT !.proportion = p] : p \in CohortProportions}
              \cup {[NoArgs EXCEPT !.repeat = r] : r \in CohortRepeats}
              \cup {[NoArgs EXCEPT !.samples = s] : s \in CohortSamples}
              \cup {NoArgs, [NoArgs EXCEPT !.proportion = Some(F64(1, 1)),
                                           !.samples = Some(I64(3))]} :
        LET r == StreamInit([w EXCEPT !.local = Some("local")])
        IN  /\ streams' = IF r.err = "none" THEN Append(streams, r.stream) ELSE streams
            /\ wcall' = [NoCall EXCEPT !.op = "init", !.pre = streams, !.err = r.err]
    /\ UNCHANGED <<cvars, pvars>>

CallValidateWeights ==
    /\ Returned
    /\ LET v == ValidateWeights(streams)
       IN  wcall' = [NoCall EXCEPT !.op = "validate_weights", !.pre = streams,
                                   !.err = v.err, !.at = v.at,
                                   !.rel = (v.err = "none" /\ v.rel)]
    /\ UNCHANGED <<streams, cvars, pvars>>

\* The call with its inputs, its outcome recorded. An input the call never
\* reads (the counts and the epoch size when validation fails, the drawn
\* indices and the NaN cast outside the relative branch) is left at its
\* default.
ApplyWeightsStep(counts, spe, indices, nanCast) ==
    LET r == ApplyWeights(streams, counts, spe, indices, nanCast)
    IN  /\ streams' = r.streams
        /\ wcall' = [NoCall EXCEPT
                !.op = "apply_weights", !.pre = streams, !.counts = counts,
                !.spe = spe, !.indices = indices, !.nanCast = nanCast,
                !.err = r.err, !.ret = r.ret,
                !.rel = (Len(streams) > 0 /\ HasProportion(streams[1]))]
        /\ UNCHANGED <<cvars, pvars>>

CallApplyWeights ==
    /\ Returned
    /\ LET v == ValidateWeights(streams)
           n == Len(streams)
       IN  \/ /\ v.err /= "none"
              /\ ApplyWeightsStep(<<>>, None, {}, <<0, 0>>)
           \/ /\ v.err = "none" /\ v.rel /\ ProportionSum(streams) /= 0
              /\ \E counts \in [1..n -> CountValues], spe \in EpochArgs :
                    \E indices \in ChoiceDraws(n, RelativeShort(streams, counts, spe, <<0, 0>>)) :
                        ApplyWeightsStep(counts, spe, indices, <<0, 0>>)
           \/ /\ v.err = "none" /\ v.rel /\ ProportionSum(streams) = 0
              /\ \E counts \in [1..n -> CountValues], spe \in EpochArgs,
                    nanCast \in NanCastValues :
                    \E indices \in ChoiceDraws(n, RelativeShort(streams, counts, spe, nanCast)) :
                        ApplyWeightsStep(counts, spe, indices, nanCast)
           \/ /\ v.err = "none" /\ ~v.rel
              /\ \E counts \in [1..n -> CountValues], spe \in EpochArgs :
                    ApplyWeightsStep(counts, spe, {}, <<0, 0>>)

(***************************************************************************)
(* Processes sharing one local directory.                                  *)
(*   A file is a directory entry naming an inode; an open file descriptor  *)
(*   keeps naming its inode when the entry is renamed, replaced or removed.*)
(*   An inode holds "empty" (created or truncated, nothing written yet),   *)
(*   "good" (the complete expected bytes) or "bad" (complete bytes that do *)
(*   not hash to the expected digest); "free" is an inode nobody names.    *)
(***************************************************************************)
Procs == 1..NumProcs

ZipName == "shard.00000.mds.zstd"

RawName == "shard.00000.mds"

\* tmp_filename = raw_filename + '.tmp' (line 311)
TmpName == "shard.00000.mds.tmp"

\* get_index_basename()
IndexName == "index.json"

FileNames == {ZipName, RawName, TmpName, IndexName}

Inodes == 1..(Cardinality(FileNames) + NumProcs)

\* Exceptions of download_file other than FileNotFoundError.
OtherErrors == {"ConnectionError", "TimeoutError"}

\* os.path.join of the non-empty components.
PathJoin(parts) == SelectSeq(parts, LAMBDA c : c /= "")

\* os.path.join(self.local, self.split, basename) (lines 271, 337, 344, 383)
LocalPath(stream, basename) == PathJoin(<<stream.local, stream.split, basename>>)

\* Lines 267-270.
RemotePath(stream, basename) ==
    IF stream.remote = None THEN None
    ELSE Some(PathJoin(<<Val(stream.remote), stream.split, basename>>))

NoOutcome ==
    [kind |-> "none", what |-> "", by |-> "", value |-> <<>>, errors |-> <<>>,
     cause |-> ""]

Returns(value) == [NoOutcome EXCEPT !.kind = "return", !.value = value]

\* The exception what, raised by the call by.
Raises(what, by) == [NoOutcome EXCEPT !.kind = "raise", !.what = what, !.by = by]

\* raise RuntimeError(... {errors}) from errors[-1] (lines 286-287)
RaisesFrom(what, by, errors) ==
    [Raises(what, by) EXCEPT !.errors = errors, !.cause = errors[Len(errors)]]

\* A process: pc "off" never runs, "idle" has not called yet, "done" has
\* returned or raised.
NoProc ==
    [pc |-> "off", op |-> "", leader |-> FALSE, base |-> "", then |-> "",
     calls |-> <<>>, errors |-> <<>>, data |-> "", fd |-> 0, waited |-> 0,
     walks |-> 0, ls |-> {}, consulted |-> <<>>, flags |-> <<>>,
     out |-> NoOutcome]

NoJob == [op |-> "", zip |-> FALSE, shards |-> 0]

NoFiles == [f \in FileNames |-> 0]

NoInodes == [i \in Inodes |-> "free"]

ProcsOff ==
    /\ conf = NoStream
    /\ job = NoJob
    /\ dir = NoFiles
    /\ ino = NoInodes
    /\ procs = [p \in Procs |-> NoProc]

\* os.path.isfile
IsFile(d, name) == d[name] /= 0

Referenced(d, ps) == {d[f] : f \in FileNames} \cup {ps[p].fd : p \in Procs}

\* The inode a newly created file gets.
FreshInode(d, ps) ==
    CHOOSE i \in Inodes : /\ i \notin Referenced(d, ps)
                          /\ \A k \in Inodes : k \notin Referenced(d, ps) => i <= k

\* The inodes after a step: one that nothing names any more is freed.
Collect(d, content, ps) ==
    [i \in Inodes |-> IF i \in Referenced(d, ps) THEN content[i] ELSE "free"]

\* The step of process p that leaves the directory as d, the inodes as
\* content and p itself as proc.
Step(p, d, content, proc) ==
    LET ps == [procs EXCEPT ![p] = proc]
    IN  /\ procs' = ps
        /\ dir' = d
        /\ ino' = Collect(d, content, ps)
        /\ UNCHANGED <<conf, job, cvars, wvars>>

\* The step of process p that touches no file.
LocalStep(p, proc) == Step(p, dir, ino, proc)

\* The call of the process ends with the outcome out.
Ends(proc, out) == [proc EXCEPT !.pc = "done", !.out = out]

(***************************************************************************)
(* Stream._download_file                                                   *)
(***************************************************************************)
\* A test that takes any recorded error for exhaustion.
RetriesExhaustedByAny(stream, errors) == Len(errors) > 0

\* Line 285.
RetriesExhausted(stream, errors) == Val(stream.download_retry) < Len(errors)

\* A loop that does not count the first attempt.
MoreAttemptsShort(stream, tries) == tries < Val(stream.download_retry)

\* Line 275: range(1 + self.download_retry) has an iteration after tries of
\* them.
MoreAttempts(stream, tries) == tries < 1 + Val(stream.download_retry)

\* Lines 285-289, reached when the loop ends: the call raises the aggregated
\* error, or returns local to the caller, which goes on at proc.then.
AfterLoop(proc) ==
    IF RetriesExhausted(conf, proc.errors)
    THEN Ends(proc, RaisesFrom("RuntimeError", "_download_file", proc.errors))
    ELSE IF proc.then = "return"
        THEN Ends(proc, Returns(LocalPath(conf, proc.base)))
    ELSE [proc EXCEPT !.pc = proc.then]

\* Lines 266-275: the call _download_file(basename), the caller going on at
\* then when it returns.
EntersDownload(proc, basename, then) ==
    LET entered == [proc EXCEPT !.pc = "download", !.base = basename,
                                !.then = then, !.calls = <<>>, !.errors = <<>>]
    IN  IF MoreAttempts(conf, 0) THEN entered ELSE AfterLoop(entered)

\* download_file(remote, local, self.download_timeout) (line 277), with what
\* came of it: the exception raised, or the bytes left in the local file.
DownloadCall(stream, basename, result) ==
    [remote |-> RemotePath(stream, basename), local |-> LocalPath(stream, basename),
     timeout |-> stream.download_timeout, result |-> result]

Called(proc, result) ==
    [proc EXCEPT !.calls = Append(proc.calls, DownloadCall(conf, proc.base, result))]

\* Line 283: break. The attempt is recorded with the bytes it left in the
\* local file.
OnDownloaded(proc, content) == AfterLoop(Called(proc, content))

\* Lines 280-282: the exception is recorded and the loop goes on, if it has
\* a further iteration.
OnOtherError(proc, e) ==
    LET failed == [Called(proc, e) EXCEPT !.errors = Append(proc.errors, e)]
    IN  IF MoreAttempts(conf, Len(failed.calls)) THEN failed ELSE AfterLoop(failed)

\* A FileNotFoundError handled as any other exception.
OnNotFoundRetried(proc) == OnOtherError(proc, "FileNotFoundError")

\* Lines 278-279: raise.
OnNotFound(proc) ==
    Ends(Called(proc, "FileNotFoundError"), Raises("FileNotFoundError", "download_file"))

\* One iteration of the loop of lines 275-283. download_file returns, the
\* local file then holding content, complete; or raises FileNotFoundError;
\* or raises another exception.
DownloadAttempt(p) ==
    LET proc == procs[p]
    IN  /\ proc.pc = "download"
        /\ \/ \E content \in {"good", "bad"} :
                LET i == FreshInode(dir, procs)
                IN  Step(p, [dir EXCEPT ![proc.base] = i], [ino EXCEPT ![i] = content],
                         OnDownloaded(proc, content))
           \/ LocalStep(p, OnNotFound(proc))
           \/ \E e \in OtherErrors : LocalStep(p, OnOtherError(proc, e))

\* A process calls self._download_file(basename).
CallDownloadFile(p) ==
    /\ procs[p].pc = "idle"
    /\ job.op = "_download_file"
    /\ LocalStep(p, EntersDownload([procs[p] EXCEPT !.op = job.op], RawName, "return"))

\* The Streams of the download runs.
DownloadConfs ==
    {StreamInit([NoArgs EXCEPT !.remote = remote, !.local = Some("local"),
                               !.split = split,
                               !.download_retry = Some(retry),
                               !.download_timeout = Some(timeout)]).stream :
        remote \in {None, Some("remote")}, split \in {None, Some("train")},
        retry \in 0..MaxRetry, timeout \in {60}}

\* One process calls.
DownloadInit ==
    /\ conf \in DownloadConfs
    /\ job = [NoJob EXCEPT !.op = "_download_file"]
    /\ dir = NoFiles
    /\ ino = NoInodes
    /\ procs = [p \in Procs |-> IF p = 1 THEN [NoProc EXCEPT !.pc = "idle"] ELSE NoProc]

(***************************************************************************)
(* Stream._download_shard_part and Stream._decompress_shard_part           *)
(***************************************************************************)
\* Lines 305, 355: if self.validate_hash
Validates(stream) == Truthy(stream.validate_hash)

\* A validation that accepts every digest.
ChecksumFailsNever(stream, data) == FALSE

\* Lines 306, 357: get_hash(...) != ...hashes[...]
ChecksumFails(stream, data) == Validates(stream) /\ data /= "good"

\* A policy that removes the compressed file whatever keep_zip says.
RemovesZipAlways(stream) == stream.remote /= Some(stream.local)

\* Line 317: not self.keep_zip and self.remote != self.local
RemovesZip(stream) ==
    /\ ~(IsSet(stream.keep_zip) /\ Val(stream.keep_zip))
    /\ stream.remote /= Some(stream.local)

\* A test that never finds the raw file.
RawThereNever(d) == FALSE

\* Line 338: os.path.isfile(raw_filename)
RawThere(d) == IsFile(d, RawName)

\* Lines 337-339 and 342, 352: the raw file exists and the call is a no-op;
\* or the compressed form is looked for; or the raw form is downloaded.
CallDownloadShardPart(p) ==
    LET proc == [procs[p] EXCEPT !.op = job.op]
    IN  /\ procs[p].pc = "idle"
        /\ job.op = "_download_shard_part"
        /\ LocalStep(p, IF RawThere(dir) THEN Ends(proc, Returns(<<>>))
                        ELSE IF job.zip THEN [proc EXCEPT !.pc = "zipcheck"]
                        ELSE EntersDownload(proc, RawName, "rawcheck"))

\* Lines 344-346: the compressed form is downloaded if it is missing.
ZipCheck(p) ==
    /\ procs[p].pc = "zipcheck"
    /\ LocalStep(p, IF IsFile(dir, ZipName) THEN [procs[p] EXCEPT !.pc = "zread"]
                    ELSE EntersDownload(procs[p], ZipName, "zread"))

\* Lines 302-310: the compressed file is read, validated and decompressed.
\* decompress gives the expected bytes for the expected input; for any other
\* input it raises or gives other bytes.
ZRead(p) ==
    LET proc == procs[p]
        data == ino[dir[ZipName]]
    IN  /\ proc.pc = "zread"
        /\ IF ~IsFile(dir, ZipName)
           THEN LocalStep(p, Ends(proc, Raises("FileNotFoundError", "open")))
           ELSE IF ChecksumFails(conf, data)
           THEN LocalStep(p, Ends(proc, Raises("ValueError", "Checksum failure")))
           ELSE IF data = "good"
           THEN LocalStep(p, [proc EXCEPT !.pc = "topen", !.data = "good"])
           ELSE \/ LocalStep(p, Ends(proc, Raises("Exception", "decompress")))
                \/ LocalStep(p, [proc EXCEPT !.pc = "topen", !.data = "bad"])

\* Line 312: open(tmp_filename, 'wb') truncates the file if there is one and
\* creates it otherwise.
TOpen(p) ==
    LET proc == procs[p]
        i == IF IsFile(dir, TmpName) THEN dir[TmpName] ELSE FreshInode(dir, procs)
    IN  /\ proc.pc = "topen"
        /\ Step(p, [dir EXCEPT ![TmpName] = i], [ino EXCEPT ![i] = "empty"],
                [proc EXCEPT !.pc = "twrite", !.fd = i])

\* Line 313 and the end of the with block: the data is written to the open
\* file, which is closed.
TWrite(p) ==
    LET proc == procs[p]
    IN  /\ proc.pc = "twrite"
        /\ Step(p, dir, [ino EXCEPT ![proc.fd] = proc.data],
                [proc EXCEPT !.pc = "trename", !.fd = 0])

\* Line 314: os.rename(tmp_filename, raw_filename), then the test of line
\* 317.
TRename(p) ==
    LET proc == procs[p]
    IN  /\ proc.pc = "trename"
        /\ IF ~IsFile(dir, TmpName)
           THEN LocalStep(p, Ends(proc, Raises("FileNotFoundError", "os.rename")))
           ELSE Step(p, [dir EXCEPT ![RawName] = dir[TmpName], ![TmpName] = 0], ino,
                     IF RemovesZip(conf) THEN [proc EXCEPT !.pc = "zremove"]
                     ELSE Ends(proc, Returns(<<>>)))

\* Line 318: os.remove(zip_filename).
ZRemove(p) ==
    LET proc == procs[p]
    IN  /\ proc.pc = "zremove"
        /\ IF ~IsFile(dir, ZipName)
           THEN LocalStep(p, Ends(proc, Raises("FileNotFoundError", "os.remove")))
           ELSE Step(p, [dir EXCEPT ![ZipName] = 0], ino, Ends(proc, Returns(<<>>)))

\* Lines 355-358: the downloaded raw file is validated if requested.
RawCheck(p) ==
    LET proc == procs[p]
    IN  /\ proc.pc = "rawcheck"
        /\ LocalStep(p,
              IF ~Validates(conf) THEN Ends(proc, Returns(<<>>))
              ELSE IF ~IsFile(dir, RawName)
                  THEN Ends(proc, Raises("FileNotFoundError", "open"))
              ELSE IF ChecksumFails(conf, ino[dir[RawName]])
                  THEN Ends(proc, Raises("ValueError", "Checksum failure"))
              ELSE Ends(proc, Returns(<<>>)))

\* remote, validate_hash and keep_zip of the shard runs. With validation,
\* every remote with every keep_zip; without it, the arguments left out, the
\* local directory alone, remote equal to local, and an empty algorithm name.
ShardCases ==
    {<<remote, Some("sha1"), keep>> :
        remote \in {None, Some("remote"), Some("local")},
        keep \in {None, Some(FALSE), Some(TRUE)}}
    \cup {<<Some("remote"), None, None>>, <<None, None, Some(FALSE)>>,
          <<Some("local"), None, None>>, <<Some("remote"), Some(""), Some(TRUE)>>}

\* The Streams of the shard runs.
ShardConfs ==
    {StreamInit([NoArgs EXCEPT !.remote = case[1], !.local = Some("local"),
                               !.download_retry = Some(0),
                               !.download_timeout = Some(timeout),
                               !.validate_hash = case[2],
                               !.keep_zip = case[3]]).stream :
        case \in ShardCases, timeout \in {60}}

\* The local directory in which the files pre are there already, each with
\* the expected bytes.
FilesThere(pre) == [f \in FileNames |-> IF f \notin pre THEN 0 ELSE IF f = ZipName THEN 1 ELSE 2]

InodesThere(pre) ==
    [i \in Inodes |-> IF \E f \in pre : FilesThere(pre)[f] = i THEN "good" ELSE "free"]

\* Every process is asked for the same shard part, with or without a
\* compressed form; the compressed and the raw file may be there already.
ShardInit ==
    /\ conf \in ShardConfs
    /\ \E zip \in BOOLEAN : job = [NoJob EXCEPT !.op = "_download_shard_part", !.zip = zip]
    /\ \E pre \in SUBSET {ZipName, RawName} :
            dir = FilesThere(pre) /\ ino = InodesThere(pre)
    /\ procs = [p \in Procs |-> [NoProc EXCEPT !.pc = "idle"]]

(***************************************************************************)
(* Stream.get_shards                                                       *)
(*   Time is counted in polling intervals (TICK).                          *)
(***************************************************************************)
\* A world in which every process is the local leader.
IsLocalLeaderAlways(proc) == TRUE

\* Line 380: world.is_local_leader
IsLocalLeader(proc) == proc.leader

\* Lines 379-386.
CallGetShards(p) ==
    LET proc == [procs[p] EXCEPT !.op = job.op]
    IN  /\ procs[p].pc = "idle"
        /\ job.op = "get_shards"
        /\ LocalStep(p, IF IsLocalLeader(proc) THEN EntersDownload(proc, IndexName, "parse")
                        ELSE [proc EXCEPT !.pc = "wait", !.base = IndexName])

\* wait_for_file_to_exist gives up.
WaitOver(waited, timeout) == waited >= timeout

\* wait_for_file_to_exist(filename, TICK, self.download_timeout, ...) (line
\* 384), one poll of it: the file exists and the wait is over; or the timeout
\* has elapsed and it raises; or it sleeps for one interval.
Wait(p) ==
    LET proc == procs[p]
    IN  /\ proc.pc = "wait"
        /\ LocalStep(p,
              IF IsFile(dir, proc.base) THEN [proc EXCEPT !.pc = "parse"]
              ELSE IF WaitOver(proc.waited, Val(conf.download_timeout))
                  THEN Ends(proc, Raises("RuntimeError", "wait_for_file_to_exist"))
              ELSE [proc EXCEPT !.waited = proc.waited + 1])

\* Lines 388-398: the index is loaded; an index whose bytes are not the
\* expected ones stands for one that declares another version.
Parse(p) ==
    LET proc == procs[p]
    IN  /\ proc.pc = "parse"
        /\ LocalStep(p,
              IF ~IsFile(dir, proc.base)
                  THEN Ends(proc, Raises("FileNotFoundError", "open"))
              ELSE IF ino[dir[proc.base]] /= "good"
                  THEN Ends(proc, Raises("ValueError", "Unsupported version"))
              ELSE Ends(proc, Returns(<<"shards">>)))

\* The Streams of the index runs.
IndexConfs ==
    {StreamInit([NoArgs EXCEPT !.remote = Some("remote"), !.local = Some("local"),
                               !.download_retry = Some(retry),
                               !.download_timeout = Some(timeout)]).stream :
        retry \in 0..MaxRetry, timeout \in 1..MaxWait}

\* The processes of one node: the first is the local leader.
IndexInit ==
    /\ conf \in IndexConfs
    /\ job = [NoJob EXCEPT !.op = "get_shards"]
    /\ dir = NoFiles
    /\ ino = NoInodes
    /\ procs = [p \in Procs |-> [NoProc EXCEPT !.pc = "idle", !.leader = (p = 1)]]

(***************************************************************************)
(* Stream.init_local_dir                                                   *)
(***************************************************************************)
\* Lines 410-414: the files under <local>/<split>.
Listing(d) == {f \in FileNames : IsFile(d, f)}

\* A list built at the front.
PrependFlag(flags, present) == <<present>> \o flags

\* Line 420: are_shards_present.append(is_shard_present)
AppendFlag(flags, present) == Append(flags, present)

\* The call shard.init_local_dir(ls, self.safe_keep_zip) of line 419 on the
\* shard of the given position, with what it returned.
ShardCall(shard, ls, keep, present) ==
    [shard |-> shard, ls |-> ls, keep |-> keep, present |-> present]

\* Line 421, when the loop of line 418 has no further shard.
AfterShards(proc) ==
    IF Len(proc.flags) < job.shards THEN [proc EXCEPT !.pc = "reconcile"]
    ELSE Ends(proc, Returns(proc.flags))

CallInitLocalDir(p) ==
    /\ procs[p].pc = "idle"
    /\ job.op = "init_local_dir"
    /\ LocalStep(p, [procs[p] EXCEPT !.op = job.op, !.pc = "walk"])

\* Lines 409-414: the directory is walked and the file names are collected.
Walk(p) ==
    LET proc == procs[p]
    IN  /\ proc.pc = "walk"
        /\ LocalStep(p, AfterShards([proc EXCEPT !.walks = proc.walks + 1,
                                                 !.ls = Listing(dir)]))

\* Lines 418-420, one iteration: the shard reconciles its files, removing
\* none or one of them, and says whether it is present.
Reconcile(p) ==
    LET proc == procs[p]
        shard == Len(proc.flags) + 1
    IN  /\ proc.pc = "reconcile"
        /\ \E present \in BOOLEAN, d \in {dir} \cup {[dir EXCEPT ![f] = 0] : f \in Listing(dir)} :
              Step(p, d, ino,
                   AfterShards([proc EXCEPT
                       !.consulted = Append(proc.consulted,
                           ShardCall(shard, proc.ls, conf.safe_keep_zip, present)),
                       !.flags = AppendFlag(proc.flags, present)]))

\* The Streams of the local directory runs.
LocalDirConfs ==
    {StreamInit([NoArgs EXCEPT !.remote = remote, !.local = Some("local"),
                               !.keep_zip = Some(keep)]).stream :
        remote \in {None, Some("remote")}, keep \in {FALSE}}

\* Every process reconciles the same directory with the same number of
\* shards.
LocalDirInit ==
    /\ conf \in LocalDirConfs
    /\ \E n \in 0..MaxShards : job = [NoJob EXCEPT !.op = "init_local_dir", !.shards = n]
    /\ \E pre \in SUBSET {ZipName, RawName} :
            dir = FilesThere(pre) /\ ino = InodesThere(pre)
    /\ procs = [p \in Procs |-> [NoProc EXCEPT !.pc = "idle"]]

(***************************************************************************)
(* Specifications.                                                         *)
(***************************************************************************)
Init == CtorInit /\ WeightsInit /\ ProcsOff

NextCtor == Construct \/ CallApplyDefault

SpecCtor == Init /\ [][NextCtor]_vars

NextWeights == AddStream \/ CallValidateWeights \/ CallApplyWeights

SpecWeights == Init /\ [][NextWeights]_vars

InitDownload == CtorInit /\ WeightsInit /\ DownloadInit

NextDownload == \E p \in Procs : CallDownloadFile(p) \/ DownloadAttempt(p)

SpecDownload == InitDownload /\ [][NextDownload]_vars

InitShard == CtorInit /\ WeightsInit /\ ShardInit

NextShard ==
    \E p \in Procs :
        \/ CallDownloadShardPart(p)
        \/ DownloadAttempt(p)
        \/ ZipCheck(p)
        \/ ZRead(p)
        \/ TOpen(p)
        \/ TWrite(p)
        \/ TRename(p)
        \/ ZRemove(p)
        \/ RawCheck(p)

SpecShard == InitShard /\ [][NextShard]_vars

InitIndex == CtorInit /\ WeightsInit /\ IndexInit

NextIndex ==
    \E p \in Procs : CallGetShards(p) \/ DownloadAttempt(p) \/ Wait(p) \/ Parse(p)

SpecIndex == InitIndex /\ [][NextIndex]_vars

InitLocalDir == CtorInit /\ WeightsInit /\ LocalDirInit

NextLocalDir == \E p \in Procs : CallInitLocalDir(p) \/ Walk(p) \/ Reconcile(p)

SpecLocalDir == InitLocalDir /\ [][NextLocalDir]_vars

(***************************************************************************)
(* Properties of the constructor.                                          *)
(***************************************************************************)
WeightArgsCount == HasCount(cargs.proportion, cargs.repeat, cargs.samples)

WeightArgsNonNegative ==
    /\ IsSet(cargs.proportion) => Val(cargs.proportion)[2] >= 0
    /\ IsSet(cargs.repeat) => Val(cargs.repeat)[2] >= 0
    /\ IsSet(cargs.samples) => ~I64Neg(Val(cargs.samples))

DownloadArgsValid ==
    /\ IsSet(cargs.download_retry) => Val(cargs.download_retry) >= 0
    /\ IsSet(cargs.download_timeout) => Val(cargs.download_timeout) > 0

WeightErrors ==
    {"ValueError: at most one of proportion, repeat, samples",
     "ValueError: proportion must be non-negative",
     "ValueError: repeat must be non-negative",
     "ValueError: samples must be non-negative"}

Applied == wcall.op = "apply_weights" /\ Len(wcall.pre) > 0

Validated == wcall.op = "validate_weights" /\ Len(wcall.pre) > 0

AllHaveProportion(cohort) == \A i \in 1..Len(cohort) : HasProportion(cohort[i])

NoneHasProportion(cohort) == \A i \in 1..Len(cohort) : ~HasProportion(cohort[i])

AllWeightsOk(cohort) == \A i \in 1..Len(cohort) : StreamWeightsOk(cohort[i])

\* The resolved pick counts are small integers that sum to total.
PicksSumTo(cohort, total) ==
    /\ \A i \in 1..Len(cohort) : HasSamples(cohort[i]) /\ I64Small(Val(cohort[i].samples))
    /\ SumSeq([i \in 1..Len(cohort) |-> Val(cohort[i].samples)[2]]) = total

\* C1: apply_weights on streams that each carry a proportion (as their one
\* weight), with a positive samples_per_epoch, returns samples_per_epoch and
\* leaves the streams' samples summing to it exactly.
C1_RelativeSumIsEpoch ==
    (/\ Applied
     /\ AllHaveProportion(wcall.pre) /\ AllWeightsOk(wcall.pre)
     /\ IsSet(wcall.spe) /\ Val(wcall.spe) > 0)
    => /\ wcall.err = "none"
       /\ wcall.ret = Some(I64(Val(wcall.spe)))
       /\ PicksSumTo(streams, Val(wcall.spe))

\* C8 as stated: validate_weights raises on every cohort that mixes streams
\* with and without a proportion, and otherwise returns TRUE exactly when
\* every stream has a proportion and FALSE exactly when none has.
C8_AsStated ==
    Validated =>
        IF ~AllHaveProportion(wcall.pre) /\ ~NoneHasProportion(wcall.pre)
        THEN wcall.err /= "none"
        ELSE /\ (wcall.err = "none" /\ wcall.rel) <=> AllHaveProportion(wcall.pre)
             /\ (wcall.err = "none" /\ ~wcall.rel) <=> NoneHasProportion(wcall.pre)

\* C8, amended: validate_weights raises on every cohort that mixes streams
\* with and without a proportion, whatever their positions; on a cohort whose
\* streams each carry at most one of proportion, repeat and samples it
\* otherwise returns TRUE exactly when every stream has a proportion and FALSE
\* exactly when none has; a stream carrying more than one makes it raise.
C8_ValidateWeights ==
    Validated =>
        /\ (~AllHaveProportion(wcall.pre) /\ ~NoneHasProportion(wcall.pre))
                => wcall.err \in {"ValueError: relative and absolute",
                                  "ValueError: at most one"}
        /\ AllWeightsOk(wcall.pre) =>
            /\ (wcall.err = "none" /\ wcall.rel) <=> AllHaveProportion(wcall.pre)
            /\ (wcall.err = "none" /\ ~wcall.rel) <=> NoneHasProportion(wcall.pre)
            /\ wcall.err \in {"none", "ValueError: relative and absolute"}
        /\ ~AllWeightsOk(wcall.pre) => wcall.err /= "none"

\* C8, witness: a cohort whose first stream has no proportion and whose second
\* has one was rejected at the second stream.
C8_Witness ==
    /\ Validated
    /\ Len(wcall.pre) = 2
    /\ ~HasProportion(wcall.pre[1]) /\ HasProportion(wcall.pre[2])
    /\ wcall.err = "ValueError: relative and absolute" /\ wcall.at = 2

\* C9 as stated: under absolute weighting apply_weights raises for every
\* supplied integer samples_per_epoch and leaves the streams unchanged.
C9_AsStated ==
    (Applied /\ NoneHasProportion(wcall.pre) /\ IsSet(wcall.spe))
    => (wcall.err /= "none" /\ streams = wcall.pre)

\* C9, amended: under absolute weighting apply_weights raises for every
\* supplied samples_per_epoch other than 0 and leaves the streams unchanged
\* (0 is taken as not supplied).
C9_AbsoluteRejectsEpoch ==
    (Applied /\ NoneHasProportion(wcall.pre) /\ IsSet(wcall.spe) /\ Val(wcall.spe) /= 0)
    => /\ wcall.err = "ValueError: samples_per_epoch with absolute weights"
       /\ wcall.ret = None
       /\ streams = wcall.pre

\* C9, witness: an absolute cohort of two streams, one with a repeat, given a
\* negative epoch size, was rejected.
C9_Witness ==
    /\ Applied /\ NoneHasProportion(wcall.pre) /\ Len(wcall.pre) = 2
    /\ HasRepeat(wcall.pre[1])
    /\ wcall.spe = Some(-1)
    /\ wcall.err = "ValueError: samples_per_epoch with absolute weights"
    /\ streams = wcall.pre

\* p is floor(repeat * count), repeat being the exact ratio num / den.
IsFloorOfProduct(p, repeat, count) ==
    /\ p * repeat[3] <= repeat[2] * count
    /\ repeat[2] * count < (p + 1) * repeat[3]

\* The pick the absolute branch owes stream i of the cohort the call was given.
PickIsAbsolute(i) ==
    LET before == wcall.pre[i]
        pick == Val(streams[i].samples)
    IN  /\ I64Small(pick)
        /\ HasRepeat(before) => IsFloorOfProduct(pick[2], Val(before.repeat), wcall.counts[i])
        /\ (~HasRepeat(before) /\ HasSamples(before)) => pick = Val(before.samples)
        /\ (~HasRepeat(before) /\ ~HasSamples(before)) => pick[2] = wcall.counts[i]

\* C10: under absolute weighting with no samples_per_epoch, apply_weights
\* returns, each stream's samples is floor(repeat * count) if it had a repeat,
\* its samples if it had samples and its count otherwise, and the value
\* returned is the sum of these.
C10_AbsolutePicks ==
    (Applied /\ NoneHasProportion(wcall.pre) /\ ~EpochGiven(wcall.spe))
    => /\ wcall.err = "none"
       /\ \A i \in 1..Len(streams) : HasSamples(streams[i]) /\ PickIsAbsolute(i)
       /\ IsSet(wcall.ret) /\ I64Small(Val(wcall.ret))
       /\ PicksSumTo(streams, Val(wcall.ret)[2])

\* C10, witness: repeat 2.0 on 50 samples plus an unweighted stream of 20
\* samples gave 100 + 20 = 120.
C10_Witness ==
    /\ Applied /\ wcall.err = "none" /\ wcall.spe = None
    /\ Len(wcall.pre) = 2
    /\ wcall.pre[1].repeat = Some(F64(2, 1)) /\ wcall.counts[1] = 50
    /\ ~HasRepeat(wcall.pre[2]) /\ ~HasSamples(wcall.pre[2]) /\ wcall.counts[2] = 20
    /\ streams[1].samples = Some(I64(100)) /\ streams[2].samples = Some(I64(20))
    /\ wcall.ret = Some(I64(120))

(***************************************************************************)
(* Properties of _download_file.                                           *)
(***************************************************************************)
\* The calls of download_file a process made, by what came of them.
Attempts(p) == Len(procs[p].calls)

AttemptResults(p) == [i \in 1..Attempts(p) |-> procs[p].calls[i].result]

Finished(p) == procs[p].pc = "done"

EveryAttemptFailed(p) ==
    /\ Attempts(p) > 0
    /\ \A i \in 1..Attempts(p) : procs[p].calls[i].result \in OtherErrors

\* C2: a call of _download_file never makes more than 1 + download_retry
\* attempts, and one that is over with every attempt failed by an error other
\* than FileNotFoundError made exactly 1 + download_retry of them and raised a
\* RuntimeError that lists the errors in the order they occurred and is
\* chained to the last one; it did not return the local path.
C2_RetriesThenAggregates ==
    \A p \in Procs :
        /\ Attempts(p) <= 1 + Val(conf.download_retry)
        /\ (Finished(p) /\ EveryAttemptFailed(p))
           => /\ Attempts(p) = 1 + Val(conf.download_retry)
              /\ procs[p].out.kind = "raise"
              /\ procs[p].out.what = "RuntimeError"
              /\ procs[p].out.errors = AttemptResults(p)
              /\ procs[p].out.cause = AttemptResults(p)[Attempts(p)]

\* C2, witness: download_retry is 2 and three attempts failed, by a
\* ConnectionError and then two TimeoutErrors; the call raised.
C2_Witness ==
    \E p \in Procs :
        /\ Val(conf.download_retry) = 2
        /\ Finished(p)
        /\ AttemptResults(p) = <<"ConnectionError", "TimeoutError", "TimeoutError">>
        /\ procs[p].out.what = "RuntimeError"

\* C3: an attempt that raised FileNotFoundError is the last attempt of its
\* call, and the call is over, having raised that FileNotFoundError and not
\* the aggregated RuntimeError.
C3_NotFoundNotRetried ==
    \A p \in Procs : \A i \in 1..Attempts(p) :
        procs[p].calls[i].result = "FileNotFoundError"
        => /\ i = Attempts(p)
           /\ Finished(p)
           /\ procs[p].out = Raises("FileNotFoundError", "download_file")

\* C3, witness: with download_retry 2 the second attempt, after a
\* ConnectionError, raised FileNotFoundError.
C3_Witness ==
    \E p \in Procs :
        /\ Val(conf.download_retry) = 2
        /\ AttemptResults(p) = <<"ConnectionError", "FileNotFoundError">>
        /\ Finished(p)

(***************************************************************************)
(* Properties of _download_shard_part.                                     *)
(***************************************************************************)
Compressed == job.op = "_download_shard_part" /\ job.zip

\* Every download of every process succeeded and fetched the expected bytes.
DownloadsSucceeded ==
    \A p \in Procs : \A i \in 1..Attempts(p) : procs[p].calls[i].result = "good"

\* C4: on the compressed path a raw file that exists is never a file that
\* was created or truncated and not yet written. Violated: the processes
\* share the name of the temporary file, and one of them truncates the file
\* that the other one renames into place.
C4_RawNeverPartial ==
    (Compressed /\ IsFile(dir, RawName)) => ino[dir[RawName]] /= "empty"

\* C5: when every racing call is over, downloads having succeeded, each call
\* has returned and the raw file is there with the expected bytes. Violated:
\* the call whose temporary file was renamed by the other one raises
\* FileNotFoundError.
C5_RacesAreSafe ==
    (Compressed /\ DownloadsSucceeded /\ \A p \in Procs : Finished(p))
    => /\ \A p \in Procs : procs[p].out.kind = "return"
       /\ IsFile(dir, RawName)
       /\ ino[dir[RawName]] = "good"

(***************************************************************************)
(* Properties of get_shards.                                               *)
(***************************************************************************)
TimedOut(p) == Finished(p) /\ procs[p].out = Raises("RuntimeError", "wait_for_file_to_exist")

\* C6: a process that is not the local leader makes no download attempt; it
\* raises the timeout error only after download_timeout has elapsed and with
\* the index file absent, never waits longer than that, and reaches the
\* parsing of the index only with the file there.
C6_NonLeaderWaits ==
    \A p \in Procs :
        (job.op = "get_shards" /\ ~procs[p].leader)
        => /\ Attempts(p) = 0
           /\ procs[p].waited <= Val(conf.download_timeout)
           /\ TimedOut(p) => /\ procs[p].waited = Val(conf.download_timeout)
                             /\ \/ ~IsFile(dir, IndexName)
                                \/ \E q \in Procs : procs[q].leader /\ Attempts(q) > 0
           /\ procs[p].pc = "parse" => IsFile(dir, IndexName)
           /\ (Finished(p) /\ ~TimedOut(p)) => IsFile(dir, IndexName)

\* C6, witness: with download_timeout 2 a process that is not the leader
\* waited 2 intervals and raised, the index file never having appeared.
C6_Witness ==
    \E p \in Procs :
        /\ ~procs[p].leader /\ TimedOut(p)
        /\ Val(conf.download_timeout) = 2 /\ procs[p].waited = 2
        /\ ~IsFile(dir, IndexName)

(***************************************************************************)
(* Properties of _decompress_shard_part.                                   *)
(***************************************************************************)
\* The step in which the call of p returns from _decompress_shard_part.
DecompressReturns(p) ==
    /\ procs[p].pc \in {"trename", "zremove"}
    /\ procs'[p].pc = "done"
    /\ procs'[p].out.kind = "return"

KeepZipUnsetOrFalse == conf.keep_zip \in {None, Some(FALSE)}

RemoteDiffersFromLocal == conf.remote /= Some(conf.local)

C12_KeptIffSafeKeepZip ==
    [][\A p \in Procs :
        (DecompressReturns(p) /\ conf.keep_zip = Some(FALSE))
        => /\ IsFile(dir', ZipName) <=> RemoteIsLocal(conf.remote, conf.local)
           /\ ~IsFile(dir', ZipName) <=> (conf.safe_keep_zip = Some(FALSE))]_vars

(***************************************************************************)
(* Properties of init_local_dir.                                           *)
(***************************************************************************)
\* C13: a call of init_local_dir walks the directory at most once, and has
\* walked it once when a shard is consulted or the call is over; the i-th
\* shard consulted is the i-th of the list, every shard is handed the same
\* file set, the one of the walk, and the i-th flag is what the i-th shard
\* returned; the call returns the flags, one per shard, for any number of
\* shards.
C13_OneWalkOneFlagPerShard ==
    \A p \in Procs :
        LET proc == procs[p]
            n == Len(proc.consulted)
        IN  /\ proc.walks <= 1
            /\ (n > 0 \/ (Finished(p) /\ proc.op = "init_local_dir")) => proc.walks = 1
            /\ Len(proc.flags) = n
            /\ \A i \in 1..n :
                /\ proc.consulted[i].shard = i
                /\ proc.consulted[i].ls = proc.ls
                /\ proc.consulted[i].ls = proc.consulted[1].ls
                /\ proc.flags[i] = proc.consulted[i].present
            /\ (Finished(p) /\ proc.op = "init_local_dir")
               => /\ n = job.shards
                  /\ proc.out = Returns([i \in 1..n |-> proc.consulted[i].present])

\* C13, witness: two shards, the first absent and the second present, the
\* call returned <<FALSE, TRUE>> after one walk that found both files.
C13_Witness ==
    \E p \in Procs :
        /\ Finished(p) /\ job.shards = 2 /\ procs[p].walks = 1
        /\ procs[p].ls = {ZipName, RawName}
        /\ procs[p].out = Returns(<<FALSE, TRUE>>)

(***************************************************************************)
(* Properties of apply_default.                                            *)
(***************************************************************************)
\* The first apply_default on the Stream has returned.
Defaulted == cdef.n = 1 /\ cdef.err = "none"

\* C14: after apply_default a field given to the constructor, be it false,
\* zero or empty, has the value given, and a field not given has the value
\* of the default (for validate_hash, None if that value is empty).
\* Violated: split='' given to the constructor is replaced by the default's
\* split.
C14_KeepsExplicitFields ==
    Defaulted
    => /\ IF IsSet(cargs.split) THEN cself.split = Val(cargs.split)
          ELSE cself.split = cdef.default.split
       /\ IF IsSet(cargs.download_retry) THEN cself.download_retry = cargs.download_retry
          ELSE cself.download_retry = cdef.default.download_retry
       /\ IF IsSet(cargs.download_timeout)
          THEN cself.download_timeout = cargs.download_timeout
          ELSE cself.download_timeout = cdef.default.download_timeout
       /\ IF IsSet(cargs.validate_hash) THEN cself.validate_hash = cargs.validate_hash
          ELSE cself.validate_hash \in {cdef.default.validate_hash, None}
       /\ IF IsSet(cargs.keep_zip) THEN cself.keep_zip = cargs.keep_zip
          ELSE cself.keep_zip = cdef.default.keep_zip

\* The step in which p calls _download_shard_part.
ShardPartCalled(p) == procs[p].pc = "idle" /\ procs'[p].pc /= "idle"

\* C15: a call of _download_shard_part made with the raw file there returns
\* at once, having made no download attempt and read no data, and leaves
\* every file as it was.
C15_NoOpWhenRawThere ==
    [][\A p \in Procs :
        (ShardPartCalled(p) /\ job.op = "_download_shard_part" /\ IsFile(dir, RawName))
        => /\ procs'[p].pc = "done"
           /\ procs'[p].out = Returns(<<>>)
           /\ procs'[p].calls = <<>>
           /\ procs'[p].data = ""
           /\ dir' = dir
           /\ ino' = ino]_vars

\* C15, witness: a call on the compressed path returned with no download
\* attempt and no data read, the raw file being there.
C15_Witness ==
    \E p \in Procs :
        /\ Compressed /\ Finished(p) /\ procs[p].out = Returns(<<>>)
        /\ Attempts(p) = 0 /\ procs[p].data = ""
        /\ IsFile(dir, RawName)

ChecksumRaised(p) == procs[p].out = Raises("ValueError", "Checksum failure")

HashConfigured == conf.validate_hash \notin {None, Some("")}

\* On the compressed path: with validation configured no call goes on to
\* decompress bytes that do not match the digest; without it no call raises
\* the checksum error; and when the only call made has raised it, there is no
\* raw file and no temporary file and the compressed file is still there.
ChecksumBeforeWriting ==
    Compressed
    => /\ HashConfigured
          => \A p \in Procs : procs[p].data /= "bad" /\ procs[p].out.by /= "decompress"
       /\ ~HashConfigured => \A p \in Procs : ~ChecksumRaised(p)
       /\ \A p \in Procs :
            (ChecksumRaised(p) /\ \A q \in Procs \ {p} : procs[q].pc = "idle")
            => /\ ~IsFile(dir, RawName)
               /\ ~IsFile(dir, TmpName)
               /\ IsFile(dir, ZipName)

\* The step in which a call raises the checksum error on the compressed
\* path: the bytes read do not match, and no file is written or removed.
ChecksumStepWritesNothing ==
    \A p \in Procs :
        (Compressed /\ procs[p].pc = "zread" /\ ChecksumRaised(p)')
        => /\ HashConfigured
           /\ ino[dir[ZipName]] = "bad"
           /\ dir' = dir
           /\ ino' = ino

\* C16: on the compressed path with validation configured, a compressed file
\* whose digest does not match makes the call raise the checksum error with
\* nothing written: no raw file, no temporary file, the compressed file not
\* removed; without validation the checksum error is never raised.
C16_ChecksumBeforeAnyWrite == []ChecksumBeforeWriting /\ [][ChecksumStepWritesNothing]_vars

\* C16, witness: a call raised the checksum error on a compressed file with
\* the wrong bytes; the raw and the temporary file are not there.
C16_Witness ==
    \E p \in Procs :
        /\ Compressed /\ ChecksumRaised(p)
        /\ IsFile(dir, ZipName) /\ ino[dir[ZipName]] = "bad"
        /\ ~IsFile(dir, RawName) /\ ~IsFile(dir, TmpName)

Uncompressed == job.op = "_download_shard_part" /\ ~job.zip

\* C17: on the uncompressed path with validation configured, a call that
\* has returned leaves a raw file whose bytes match the expected digest.
\* Violated: after a call raised the checksum error, the next call finds the
\* rejected file there and returns.
C17_ReturnsOnlyOnValidRaw ==
    (Uncompressed /\ HashConfigured)
    => \A p \in Procs :
        (Finished(p) /\ procs[p].out.kind = "return")
        => IsFile(dir, RawName) /\ ino[dir[RawName]] = "good"

Succeeded(result) == result \in {"good", "bad"}

\* <local>/<split>/<basename>, the split left out when it is empty.
ExpectedLocalPath ==
    IF conf.split = "" THEN <<conf.local, RawName>> ELSE <<conf.local, conf.split, RawName>>

\* C18: a call of _download_file makes at most 1 + download_retry attempts
\* and none after one that succeeded; an attempt that succeeded ends the call,
\* which returns <local>/<split>/<basename>, whatever failed before; and a
\* call that is over has returned only if its last attempt succeeded.
C18_ReturnsLocalOnSuccess ==
    \A p \in Procs :
        /\ Attempts(p) <= 1 + Val(conf.download_retry)
        /\ \A i \in 1..Attempts(p) :
            Succeeded(procs[p].calls[i].result)
            => /\ i = Attempts(p)
               /\ Finished(p)
               /\ procs[p].out = Returns(ExpectedLocalPath)
        /\ (Finished(p) /\ procs[p].op = "_download_file" /\ procs[p].out.kind = "return")
           => /\ Attempts(p) > 0
              /\ Succeeded(procs[p].calls[Attempts(p)].result)

\* C18, witness: download_retry 2, split "train": two attempts failed, the
\* third succeeded and the call returned local/train/<basename>.
C18_Witness ==
    \E p \in Procs :
        /\ Val(conf.download_retry) = 2 /\ conf.split = "train"
        /\ AttemptResults(p) = <<"ConnectionError", "TimeoutError", "good">>
        /\ procs[p].out = Returns(<<"local", "train", RawName>>)

\* C19: in the relative branch the deficit d = samples_per_epoch minus the
\* sum of the truncated products is at least 0 and less than the number of
\* streams, the call returns, every stream's samples is its truncated product
\* or that plus one, and exactly d streams got the plus one.
\* Violated: proportions that are all 0 make every product NaN, and the
\* deficit is not a size that can be drawn.
C19_DeficitBelowStreamCount ==
    (Applied /\ AllHaveProportion(wcall.pre) /\ AllWeightsOk(wcall.pre))
    => LET n == Len(wcall.pre)
           base == RelativeBasePicks(wcall.pre, wcall.counts, wcall.spe, wcall.nanCast)
           d == RelativeShort(wcall.pre, wcall.counts, wcall.spe, wcall.nanCast)
       IN  /\ I64Small(d) /\ 0 <= d[2] /\ d[2] < n
           /\ wcall.err = "none"
           /\ \A i \in 1..n :
                Val(streams[i].samples) \in {base[i], I64Add(base[i], I64(1))}
           /\ Cardinality({i \in 1..n : Val(streams[i].samples) /= base[i]}) = d[2]

HasAllThree(stream) == HasProportion(stream) /\ HasRepeat(stream) /\ HasSamples(stream)

Resolved(cohort) == Len(cohort) > 0 /\ \A i \in 1..Len(cohort) : HasAllThree(cohort[i])

\* C20: after an apply_weights that returned, every stream carries
\* proportion, repeat and samples; and validate_weights or apply_weights
\* called on streams that all carry the three raises the "at most one" error
\* and leaves the streams as they were.
C20_NotAppliedTwice ==
    /\ (Applied /\ wcall.err = "none") => Resolved(streams)
    /\ (wcall.op \in {"validate_weights", "apply_weights"} /\ Resolved(wcall.pre))
       => /\ wcall.err = "ValueError: at most one"
          /\ streams = wcall.pre

\* C20, witness: a second apply_weights on two resolved streams raised.
C20_Witness ==
    /\ Applied /\ Len(wcall.pre) = 2 /\ Resolved(wcall.pre)
    /\ wcall.err = "ValueError: at most one"

(***************************************************************************)
(* Properties of repeated apply_default.                                   *)
(***************************************************************************)
\* The step is an apply_default on a Stream on which an earlier one returned.
DefaultedAgain == cdef.n >= 1 /\ cdef'.n = cdef.n + 1

\* The apply_default that returned filled the field: it was not given to the
\* constructor.
Filled(field) == ~IsSet(cargs[field])

\* The step leaves the field of the Stream as it is.
Kept(field) == cself'[field] = cself[field]

\* C21: an apply_default that follows one that returned, with the same or
\* another default, leaves split, download_retry, download_timeout,
\* validate_hash, keep_zip and safe_keep_zip as they are, for each of them
\* that was not given to the constructor and so was filled by the earlier
\* apply_default.
\* Violated: download_retry, download_timeout, keep_zip and safe_keep_zip
\* are assigned again from the later default.
C21_LaterDefaultKeepsFilled ==
    [][DefaultedAgain
        => /\ \A field \in {"split", "download_retry", "download_timeout",
                            "validate_hash", "keep_zip"} :
                Filled(field) => Kept(field)
           /\ Filled("keep_zip") => Kept("safe_keep_zip")]_vars

====
